---- MODULE Spec2Model ----
(***************************************************************************)
(* Polling-place simulation (simulate.py): the Voter records, the          *)
(* VotingBooths pool (a queue.PriorityQueue of (departure_time, voter)     *)
(* pairs), Precinct.simulate, and the two search routines                  *)
(* find_impatience_threshold and find_voting_booths_needed.                *)
(*                                                                         *)
(* Times are modelled as naturals.  A voter is identified by its position  *)
(* in voter_list; its fields live in the sequences start_time,             *)
(* departure_time and has_voted.                                           *)
(***************************************************************************)
EXTENDS Integers, Sequences, FiniteSets, TLC

\* ------------------------------------------------------------------ bounds
MaxVoters == 3
MaxBooths == 2
MaxArrivals == 7
MaxTrials == 2
MaxSearchVoters == 2

\* values the external parameter generator (util.gen_voter_parameters) may
\* return, and the values the command line may pass
GapValues == {0, 1, 5}
DurationValues == {4, 10}
ThresholdValues == {3, 100}
HoursOpenValues == {1}

\* ------------------------------------------------------- python primitives
\* None, as stored by Voter.__init__ in start_time and departure_time
None == -1

\* truth value of a number-or-None, as `assert v.start_time` evaluates it
Truthy(x) == x # None /\ x # 0

NoError == "none"
AssertionError == "AssertionError"
TypeError == "TypeError"

\* ------------------------------------------------- the (dt, v) heap entries
\* (dt, v) tuples: two tuples are ordered by dt; with equal dt the voters
\* are compared, and Voter defines no ordering, so only identical voters
\* compare (as equal)
Comparable(a, b) == a.dt # b.dt \/ a.v = b.v

\* variant: the order of departure times is reversed
Lt_reversed(a, b) == a.dt > b.dt

\* tuple comparison once the departure times differ
Lt(a, b) == a.dt < b.dt

\* heapq._siftdown on a 0-based position; ok = FALSE when a comparison raised
RECURSIVE siftdown(_, _, _, _)
siftdown(heap, startpos, pos, newitem) ==
    IF pos > startpos
    THEN LET parentpos == (pos - 1) \div 2
             parent == heap[parentpos + 1]
         IN  IF ~Comparable(newitem, parent)
             THEN [heap |-> heap, ok |-> FALSE]
             ELSE IF Lt(newitem, parent)
                  THEN siftdown([heap EXCEPT ![pos + 1] = parent],
                                startpos, parentpos, newitem)
                  ELSE [heap |-> [heap EXCEPT ![pos + 1] = newitem], ok |-> TRUE]
    ELSE [heap |-> [heap EXCEPT ![pos + 1] = newitem], ok |-> TRUE]

\* heapq._siftup: bubble the smaller child up to a leaf, then sift down
RECURSIVE siftup(_, _, _, _)
siftup(heap, startpos, pos, newitem) ==
    LET endpos == Len(heap)
        childpos == 2 * pos + 1
        rightpos == childpos + 1
    IN  IF childpos < endpos
        THEN IF rightpos < endpos /\ ~Comparable(heap[childpos + 1], heap[rightpos + 1])
             THEN [heap |-> heap, ok |-> FALSE]
             ELSE LET c == IF rightpos < endpos
                              /\ ~Lt(heap[childpos + 1], heap[rightpos + 1])
                           THEN rightpos ELSE childpos
                  IN  siftup([heap EXCEPT ![pos + 1] = heap[c + 1]],
                             startpos, c, newitem)
        ELSE siftdown(heap, startpos, pos, newitem)

\* PriorityQueue.put: heappush
heappush(heap, item) ==
    siftdown(Append(heap, item), 0, Len(heap), item)

\* PriorityQueue.get on a non-empty queue: heappop
heappop(heap) ==
    LET lastelt == heap[Len(heap)]
        rest == SubSeq(heap, 1, Len(heap) - 1)
    IN  IF rest = << >>
        THEN [heap |-> rest, item |-> lastelt, ok |-> TRUE]
        ELSE LET s == siftup([rest EXCEPT ![1] = lastelt], 0, 0, lastelt)
             IN  [heap |-> s.heap, item |-> heap[1], ok |-> s.ok]

\* ------------------------------------------------------------ VotingBooths
\* variant: a full bank still counts as available
is_booth_available_inclusive(qq, nb) == Len(qq) <= nb

is_booth_available(qq, nb) == Len(qq) < nb

is_some_booth_occupied(qq) == Len(qq) > 0

\* variant: without the assertion that a booth is available
enter_booth_unchecked(qq, nb, v, st, dur) ==
    IF ~Truthy(st)
    THEN [q |-> qq, err |-> AssertionError,
          msg |-> "Voter's start time must be set."]
    ELSE LET p == heappush(qq, [dt |-> st + dur, v |-> v])
         IN  [q |-> p.heap, err |-> IF p.ok THEN NoError ELSE TypeError,
              msg |-> ""]

\* enter_booth(v): both assertions, then put((start_time + duration, v))
enter_booth(qq, nb, v, st, dur) ==
    IF ~is_booth_available(qq, nb)
    THEN [q |-> qq, err |-> AssertionError, msg |-> "All booths in use"]
    ELSE IF ~Truthy(st)
         THEN [q |-> qq, err |-> AssertionError,
               msg |-> "Voter's start time must be set."]
         ELSE LET p == heappush(qq, [dt |-> st + dur, v |-> v])
              IN  [q |-> p.heap, err |-> IF p.ok THEN NoError ELSE TypeError,
                   msg |-> ""]

\* variant: peeks at the last pair of the heap array instead of the smallest
time_next_free_last(qq) ==
    IF ~is_some_booth_occupied(qq)
    THEN [q |-> qq, dt |-> None, err |-> AssertionError, msg |-> "No booths in use"]
    ELSE [q |-> qq, dt |-> qq[Len(qq)].dt, err |-> NoError, msg |-> ""]

\* variant: the pair taken out by the get is not put back
time_next_free_get_only(qq) ==
    IF ~is_some_booth_occupied(qq)
    THEN [q |-> qq, dt |-> None, err |-> AssertionError, msg |-> "No booths in use"]
    ELSE LET g == heappop(qq)
         IN  [q |-> g.heap, dt |-> g.item.dt,
              err |-> IF g.ok THEN NoError ELSE TypeError, msg |-> ""]

\* time_next_free(): a get followed by a put of the same pair
time_next_free(qq) ==
    IF ~is_some_booth_occupied(qq)
    THEN [q |-> qq, dt |-> None, err |-> AssertionError, msg |-> "No booths in use"]
    ELSE LET g == heappop(qq)
         IN  IF ~g.ok
             THEN [q |-> g.heap, dt |-> None, err |-> TypeError, msg |-> ""]
             ELSE LET p == heappush(g.heap, g.item)
                  IN  [q |-> p.heap, dt |-> g.item.dt,
                       err |-> IF p.ok THEN NoError ELSE TypeError, msg |-> ""]

\* exit_booth(): remove the pair with the lowest departure time
exit_booth(qq) ==
    IF ~is_some_booth_occupied(qq)
    THEN [q |-> qq, v |-> 0, dt |-> None, err |-> AssertionError,
          msg |-> "No booths in use"]
    ELSE LET g == heappop(qq)
         IN  [q |-> g.heap, v |-> g.item.v, dt |-> g.item.dt,
              err |-> IF g.ok THEN NoError ELSE TypeError, msg |-> ""]

\* ---------------------------------------------------------------- Precinct
\* A draw is what util.gen_voter_parameters returns for one candidate voter
Draws == [gap : GapValues, voting_duration : DurationValues, is_impatient : BOOLEAN]

\* Voter.__init__: the immutable fields of a voter
Voter(arrival_time, voting_duration, is_impatient) ==
    [arrival_time |-> arrival_time, voting_duration |-> voting_duration,
     is_impatient |-> is_impatient]

\* variant: a candidate arriving exactly at closing time also ends the list
RECURSIVE generate_from_at_closing(_, _, _, _, _)
generate_from_at_closing(draws, num, current_time, p, acc) ==
    IF num > p.num_voters
    THEN acc
    ELSE LET d == draws[num]
             t == current_time + d.gap
         IN  IF t >= p.hours_open * 60
             THEN acc
             ELSE generate_from_at_closing(draws, num + 1, t, p,
                                Append(acc, Voter(t, d.voting_duration, d.is_impatient)))

\* __generate_voter_list__: running sum of the gaps, at most num_voters
\* candidates, stopping at the first one past closing time
RECURSIVE generate_from(_, _, _, _, _)
generate_from(draws, num, current_time, p, acc) ==
    IF num > p.num_voters
    THEN acc
    ELSE LET d == draws[num]
             t == current_time + d.gap
         IN  IF t > p.hours_open * 60
             THEN acc
             ELSE generate_from(draws, num + 1, t, p,
                                Append(acc, Voter(t, d.voting_duration, d.is_impatient)))

generate_voter_list(p, draws) == generate_from(draws, 1, 0, p, << >>)

\* -------------------------------------------------------- Precinct.simulate
\* The locals of one call of simulate, as a record:
\*   voter_list, k (index of the loop's current voter), q (the booths' heap),
\*   start_time / departure_time / has_voted (per voter), next_avail,
\*   confirmed_voter_list (voter indices, in append order), pc, err;
\*   observed[j] records what voter j found at line 222: whether a booth was
\*   available and the lowest departure time then in the booths (None if empty)
AllNone(n) == [j \in 1..n |-> None]

AllFalse(n) == [j \in 1..n |-> FALSE]

\* entry of simulate with a fresh VotingBooths: line 216, before line 217
InitRun ==
    [voter_list |-> << >>, k |-> 1, q |-> << >>,
     start_time |-> << >>, departure_time |-> << >>, has_voted |-> << >>,
     next_avail |-> None, confirmed_voter_list |-> << >>, observed |-> << >>,
     pc |-> "generate", err |-> NoError, msg |-> ""]

Raise(r, qq, e, m) == [r EXCEPT !.q = qq, !.pc = "failed", !.err = e, !.msg = m]

\* line 217, and Voter.__init__ for every generated voter
DoGenerate(r, p, draws) ==
    LET vl == generate_voter_list(p, draws)
    IN  [r EXCEPT !.voter_list = vl, !.k = 1,
                  !.start_time = AllNone(Len(vl)),
                  !.departure_time = AllNone(Len(vl)),
                  !.has_voted = AllFalse(Len(vl)),
                  !.observed = [j \in 1..Len(vl) |-> [available |-> FALSE, min_dt |-> None]],
                  !.pc = "for"]

AtVoter(r) == r.pc = "for" /\ r.k <= Len(r.voter_list)

\* lowest departure time among the occupied booths, None when there is none
MinDt(qq) ==
    IF qq = << >> THEN None
    ELSE CHOOSE m \in {qq[j].dt : j \in 1..Len(qq)} :
             \A j \in 1..Len(qq) : m <= qq[j].dt

Observe(r, nb) ==
    [available |-> is_booth_available(r.q, nb), min_dt |-> MinDt(r.q)]

\* lines 222-224: a booth is free; start and departure are set
CanArriveFree(r, nb) == AtVoter(r) /\ is_booth_available(r.q, nb)

DoArriveFree(r, nb) ==
    LET v == r.voter_list[r.k]
    IN  [r EXCEPT !.observed[r.k] = Observe(r, nb),
                  !.start_time[r.k] = v.arrival_time,
                  !.departure_time[r.k] = v.arrival_time + v.voting_duration,
                  !.pc = "enter"]

\* line 228: no booth is free
CanArriveFull(r, nb) == AtVoter(r) /\ ~is_booth_available(r.q, nb)

DoArriveFull(r, nb) == [r EXCEPT !.observed[r.k] = Observe(r, nb), !.pc = "peek"]

\* line 229
DoTimeNextFree(r) ==
    LET t == time_next_free(r.q)
    IN  IF t.err # NoError
        THEN Raise(r, t.q, t.err, t.msg)
        ELSE [r EXCEPT !.q = t.q, !.next_avail = t.dt, !.pc = "decide"]

\* variant: the departure time is computed from the arrival time
Replace_from_arrival(r, st) ==
    LET x == exit_booth(r.q)
    IN  IF x.err # NoError
        THEN Raise(r, x.q, x.err, x.msg)
        ELSE [r EXCEPT !.q = x.q,
                       !.start_time[r.k] = st,
                       !.departure_time[r.k] = r.voter_list[r.k].arrival_time
                                               + r.voter_list[r.k].voting_duration,
                       !.pc = "enter"]

\* exit_booth, set_start_time(st) and line 243
Replace(r, st) ==
    LET x == exit_booth(r.q)
    IN  IF x.err # NoError
        THEN Raise(r, x.q, x.err, x.msg)
        ELSE [r EXCEPT !.q = x.q,
                       !.start_time[r.k] = st,
                       !.departure_time[r.k] = st + r.voter_list[r.k].voting_duration,
                       !.pc = "enter"]

\* lines 232-234, 243: the earliest occupant has already left
CanStaleEvict(r) ==
    r.pc = "decide" /\ r.voter_list[r.k].arrival_time > r.next_avail

\* variant: a second occupant who has also left is removed as well
DoStaleEvict_twice(r) ==
    LET x == Replace(r, r.voter_list[r.k].arrival_time)
    IN  IF x.pc = "enter" /\ x.q # << >> /\ MinDt(x.q) < r.voter_list[r.k].arrival_time
        THEN [x EXCEPT !.q = exit_booth(x.q).q]
        ELSE x

DoStaleEvict(r) == Replace(r, r.voter_list[r.k].arrival_time)

\* line 237
wait_time(r) == r.next_avail - r.voter_list[r.k].arrival_time

\* variant: a wait equal to the threshold already drives the voter away
TooImpatient_inclusive(r, thr) ==
    wait_time(r) >= thr /\ r.voter_list[r.k].is_impatient

\* variant: the comparison with the threshold is reversed
TooImpatient_below(r, thr) ==
    wait_time(r) < thr /\ r.voter_list[r.k].is_impatient

\* line 238
TooImpatient(r, thr) ==
    wait_time(r) > thr /\ r.voter_list[r.k].is_impatient

\* lines 238-240: the voter leaves without voting
CanLeave(r, thr) ==
    r.pc = "decide" /\ ~(r.voter_list[r.k].arrival_time > r.next_avail)
    /\ TooImpatient(r, thr)

\* variant: a voter who leaves is not appended to the outcome
DoLeave_dropped(r) == [r EXCEPT !.k = @ + 1, !.pc = "for"]

\* variant: a voter who leaves also vacates the earliest occupant's booth
DoLeave_vacating(r) ==
    [r EXCEPT !.q = exit_booth(r.q).q,
              !.confirmed_voter_list = Append(@, r.k), !.k = @ + 1, !.pc = "for"]

DoLeave(r) ==
    [r EXCEPT !.confirmed_voter_list = Append(@, r.k), !.k = @ + 1, !.pc = "for"]

\* lines 241-243: the voter waits for the earliest occupant to leave
CanWaitEvict(r, thr) ==
    r.pc = "decide" /\ ~(r.voter_list[r.k].arrival_time > r.next_avail)
    /\ ~TooImpatient(r, thr)

\* variant: the voter starts at the arrival time without waiting
DoWaitEvict_no_wait(r) == Replace(r, r.voter_list[r.k].arrival_time)

DoWaitEvict(r) == Replace(r, r.next_avail)

\* variant: the booth is held from the arrival time, not from the start time
DoEnterBooth_from_arrival(r, nb) ==
    LET e == enter_booth(r.q, nb, r.k, r.voter_list[r.k].arrival_time,
                         r.voter_list[r.k].voting_duration)
    IN  IF e.err # NoError
        THEN Raise(r, e.q, e.err, e.msg)
        ELSE [r EXCEPT !.q = e.q, !.pc = "vote"]

\* lines 225 and 244
DoEnterBooth(r, nb) ==
    LET e == enter_booth(r.q, nb, r.k, r.start_time[r.k],
                         r.voter_list[r.k].voting_duration)
    IN  IF e.err # NoError
        THEN Raise(r, e.q, e.err, e.msg)
        ELSE [r EXCEPT !.q = e.q, !.pc = "vote"]

\* variant: the voter is appended without set_vote(True)
DoMarkVoted_unset(r) ==
    [r EXCEPT !.confirmed_voter_list = Append(@, r.k), !.k = @ + 1, !.pc = "for"]

\* lines 246-247
DoMarkVoted(r) ==
    [r EXCEPT !.has_voted[r.k] = TRUE,
              !.confirmed_voter_list = Append(@, r.k),
              !.k = @ + 1, !.pc = "for"]

\* line 250
CanReturn(r) == r.pc = "for" /\ r.k > Len(r.voter_list)

DoReturn(r) == [r EXCEPT !.pc = "done"]

Finished(r) == r.pc \in {"done", "failed"}

\* one step of simulate
SimStep(r, p, draws, nb, thr) ==
    IF r.pc = "generate" THEN DoGenerate(r, p, draws)
    ELSE IF CanArriveFree(r, nb) THEN DoArriveFree(r, nb)
    ELSE IF CanArriveFull(r, nb) THEN DoArriveFull(r, nb)
    ELSE IF r.pc = "peek" THEN DoTimeNextFree(r)
    ELSE IF CanStaleEvict(r) THEN DoStaleEvict(r)
    ELSE IF CanLeave(r, thr) THEN DoLeave(r)
    ELSE IF CanWaitEvict(r, thr) THEN DoWaitEvict(r)
    ELSE IF r.pc = "enter" THEN DoEnterBooth(r, nb)
    ELSE IF r.pc = "vote" THEN DoMarkVoted(r)
    ELSE IF CanReturn(r) THEN DoReturn(r)
    ELSE r

RECURSIVE RunFrom(_, _, _, _, _)
RunFrom(r, p, draws, nb, thr) ==
    IF Finished(r) THEN r
    ELSE CHOOSE out \in UNION {{RunFrom(after, p, draws, nb, thr)} :
                                  after \in {SimStep(r, p, draws, nb, thr)}} : TRUE

\* a whole call precinct.simulate(seed, VotingBooths(nb), thr), where draws
\* is the parameter stream the seed produces
simulate(p, draws, nb, thr) == RunFrom(InitRun, p, draws, nb, thr)

\* ------------------------------------------------------------------- state
VARIABLES
    precinct,              \* Precinct: hours_open, num_voters
    stream,                \* stream[j]: the draws the generator sees under seed + j - 1
    num_booths,            \* VotingBooths._num_booths
    impatience_threshold,  \* simulate's impatience_threshold
    voter_list, k, q, start_time, departure_time, has_voted, next_avail,
    confirmed_voter_list, observed, pc, err, msg,   \* the running simulate call
    mode,                  \* which branch of cmd runs
    num_trials, i, all_voted, trial_results, median, fpc   \* the search routines

simvars == <<voter_list, k, q, start_time, departure_time, has_voted, next_avail,
             confirmed_voter_list, observed, pc, err, msg>>

findvars == <<mode, num_trials, i, all_voted, trial_results, median, fpc>>

vars == <<precinct, stream, num_booths, impatience_threshold, simvars, findvars>>

\* the running simulate call as a record
Cur ==
    [voter_list |-> voter_list, k |-> k, q |-> q,
     start_time |-> start_time, departure_time |-> departure_time,
     has_voted |-> has_voted, next_avail |-> next_avail,
     confirmed_voter_list |-> confirmed_voter_list, observed |-> observed,
     pc |-> pc, err |-> err, msg |-> msg]

Assign(r) ==
    /\ voter_list' = r.voter_list
    /\ k' = r.k
    /\ q' = r.q
    /\ start_time' = r.start_time
    /\ departure_time' = r.departure_time
    /\ has_voted' = r.has_voted
    /\ next_avail' = r.next_avail
    /\ confirmed_voter_list' = r.confirmed_voter_list
    /\ observed' = r.observed
    /\ pc' = r.pc
    /\ err' = r.err
    /\ msg' = r.msg

\* the simulate call is at its entry
AtEntry ==
    /\ voter_list = InitRun.voter_list
    /\ k = InitRun.k
    /\ q = InitRun.q
    /\ start_time = InitRun.start_time
    /\ departure_time = InitRun.departure_time
    /\ has_voted = InitRun.has_voted
    /\ next_avail = InitRun.next_avail
    /\ confirmed_voter_list = InitRun.confirmed_voter_list
    /\ observed = InitRun.observed
    /\ pc = InitRun.pc
    /\ err = InitRun.err
    /\ msg = InitRun.msg

\* sequences of draws of length exactly n
DrawLists(n) == [1..n -> Draws]

Precincts(maxv) == [hours_open : HoursOpenValues, num_voters : 0..maxv]

\* cmd without --find-threshold / --find-num-booths: lines 383-384
Init ==
    /\ precinct \in Precincts(MaxVoters)
    /\ stream \in [1..1 -> DrawLists(precinct.num_voters)]
    /\ num_booths \in 0..MaxBooths
    /\ impatience_threshold \in ThresholdValues
    /\ AtEntry
    /\ mode = "simulate"
    /\ num_trials = 0 /\ i = 0 /\ all_voted = FALSE
    /\ trial_results = << >> /\ median = None /\ fpc = "idle"

\* ----------------------------------------------------- actions of simulate
Frame == UNCHANGED <<precinct, stream, num_booths, impatience_threshold, findvars>>

Simulating == mode = "simulate"

GenerateVoterList ==
    /\ Simulating /\ pc = "generate"
    /\ Assign(DoGenerate(Cur, precinct, stream[1]))
    /\ Frame

ArriveFree ==
    /\ Simulating /\ CanArriveFree(Cur, num_booths)
    /\ Assign(DoArriveFree(Cur, num_booths))
    /\ Frame

ArriveFull ==
    /\ Simulating /\ CanArriveFull(Cur, num_booths)
    /\ Assign(DoArriveFull(Cur, num_booths))
    /\ Frame

TimeNextFree ==
    /\ Simulating /\ pc = "peek"
    /\ Assign(DoTimeNextFree(Cur))
    /\ Frame

StaleEvict ==
    /\ Simulating /\ CanStaleEvict(Cur)
    /\ Assign(DoStaleEvict(Cur))
    /\ Frame

LeaveUnvoted ==
    /\ Simulating /\ CanLeave(Cur, impatience_threshold)
    /\ Assign(DoLeave(Cur))
    /\ Frame

WaitEvict ==
    /\ Simulating /\ CanWaitEvict(Cur, impatience_threshold)
    /\ Assign(DoWaitEvict(Cur))
    /\ Frame

EnterBooth ==
    /\ Simulating /\ pc = "enter"
    /\ Assign(DoEnterBooth(Cur, num_booths))
    /\ Frame

MarkVoted ==
    /\ Simulating /\ pc = "vote"
    /\ Assign(DoMarkVoted(Cur))
    /\ Frame

Return ==
    /\ Simulating /\ CanReturn(Cur)
    /\ Assign(DoReturn(Cur))
    /\ Frame

Next ==
    \/ GenerateVoterList
    \/ ArriveFree
    \/ ArriveFull
    \/ TimeNextFree
    \/ StaleEvict
    \/ LeaveUnvoted
    \/ WaitEvict
    \/ EnterBooth
    \/ MarkVoted
    \/ Return

Spec == Init /\ [][Next]_vars

\* -------------------------------------------- comparing whole simulate calls
\* The same step actions, started on longer arrival sequences drawn from three
\* voter profiles: a patient voter, an impatient voter who votes for a long
\* time, an impatient voter who votes quickly.
ProfileDraws ==
    {[gap |-> 1, voting_duration |-> 2, is_impatient |-> FALSE],
     [gap |-> 1, voting_duration |-> 9, is_impatient |-> TRUE],
     [gap |-> 1, voting_duration |-> 1, is_impatient |-> TRUE]}

ProfileThresholds == {0, 1}

InitMono ==
    /\ precinct \in Precincts(MaxArrivals)
    /\ stream \in [1..1 -> [1..precinct.num_voters -> ProfileDraws]]
    /\ num_booths \in 1..(MaxBooths + 1)
    /\ impatience_threshold \in ProfileThresholds
    /\ AtEntry
    /\ mode = "simulate"
    /\ num_trials = 0 /\ i = 0 /\ all_voted = FALSE
    /\ trial_results = << >> /\ median = None /\ fpc = "idle"

SpecMono == InitMono /\ [][Next]_vars

\* Draws whose gaps reach and pass closing time (60 minutes) within a few
\* candidates: 30 + 30 is the last admissible minute, 30 + 31 is past it
ClosingDraws == [gap : {0, 30, 31}, voting_duration : {4, 40}, is_impatient : BOOLEAN]

InitClosing ==
    /\ precinct \in Precincts(MaxVoters)
    /\ stream \in [1..1 -> [1..precinct.num_voters -> ClosingDraws]]
    /\ num_booths \in 1..MaxBooths
    /\ impatience_threshold \in ThresholdValues
    /\ AtEntry
    /\ mode = "simulate"
    /\ num_trials = 0 /\ i = 0 /\ all_voted = FALSE
    /\ trial_results = << >> /\ median = None /\ fpc = "idle"

SpecClosing == InitClosing /\ [][Next]_vars

\* number of voters of a finished run with has_voted == True
RECURSIVE CountTrue(_)
CountTrue(hv) == IF hv = << >> THEN 0 ELSE (IF Head(hv) THEN 1 ELSE 0) + CountTrue(Tail(hv))

VotedCount(r) == CountTrue(r.has_voted)

\* the test both search loops make on an outcome (lines 284-288, 326-330)
AllVoted(r) == \A j \in 1..Len(r.confirmed_voter_list) : r.has_voted[r.confirmed_voter_list[j]]

Returned == pc = "done"

\* ------------------------------------------------------ the search routines
\* cmd with --find-threshold (line 368) or --find-num-booths (lines 373-374).
\* A call precinct.simulate(seed + i, ...) is one step; the simulate variables
\* then hold the finished call (`outcomes`).  In find_impatience_threshold the
\* local `threshold` is impatience_threshold; in find_voting_booths_needed the
\* local `num_booths` is num_booths.  Both are None until first assigned.
FindDraws ==
    {[gap |-> 1, voting_duration |-> 10, is_impatient |-> TRUE],
     [gap |-> 1, voting_duration |-> 20, is_impatient |-> TRUE]}

InitFind ==
    /\ precinct \in Precincts(MaxSearchVoters)
    /\ num_trials \in -1..MaxTrials
    /\ stream \in [1..num_trials -> [1..precinct.num_voters -> FindDraws]]
    /\ mode \in {"find_threshold", "find_num_booths"}
    /\ IF mode = "find_threshold"
       THEN num_booths \in 0..MaxBooths /\ impatience_threshold = None
       ELSE num_booths = None /\ impatience_threshold \in ThresholdValues
    /\ AtEntry
    /\ i = 0 /\ all_voted = FALSE
    /\ trial_results = << >> /\ median = None /\ fpc = "assert"

\* sorted(): insertion into an ascending sequence
RECURSIVE insert_sorted(_, _)
insert_sorted(x, sq) ==
    IF sq = << >> THEN <<x>>
    ELSE IF x < Head(sq) THEN <<x>> \o sq
    ELSE <<Head(sq)>> \o insert_sorted(x, Tail(sq))

RECURSIVE sorted(_)
sorted(sq) == IF sq = << >> THEN << >> ELSE insert_sorted(Head(sq), sorted(Tail(sq)))

\* variant: the lower of the two middle elements when the length is even
median_of_lower(sq) == sorted(sq)[((Len(sq) - 1) \div 2) + 1]

\* sorted_list[len(list) // 2], on 1-based sequences
median_of(sq) == sorted(sq)[(Len(sq) \div 2) + 1]

FindFrame == UNCHANGED <<precinct, stream, mode, num_trials>>

\* a failed assertion or an exception escaping from simulate ends the routine
FindFails(e, m) ==
    /\ fpc' = "failed" /\ err' = e /\ msg' = m
    /\ UNCHANGED <<voter_list, k, q, start_time, departure_time, has_voted,
                   next_avail, confirmed_voter_list, observed, pc>>

\* line 272
FindThresholdAssert ==
    /\ mode = "find_threshold" /\ fpc = "assert"
    /\ IF num_trials > 0
       THEN fpc' = "for" /\ UNCHANGED simvars
       ELSE FindFails(AssertionError, "")
    /\ UNCHANGED <<num_booths, impatience_threshold, i, all_voted, trial_results, median>>
    /\ FindFrame

\* variant: the threshold starts at 1, so the first one tried is 11
FindThresholdTrial_from_one ==
    /\ mode = "find_threshold" /\ fpc = "for" /\ i < num_trials
    /\ all_voted' = FALSE
    /\ impatience_threshold' = 1
    /\ fpc' = "while"
    /\ UNCHANGED <<num_booths, i, trial_results, median, simvars>>
    /\ FindFrame

\* lines 276-278
FindThresholdTrial ==
    /\ mode = "find_threshold" /\ fpc = "for" /\ i < num_trials
    /\ all_voted' = FALSE
    /\ impatience_threshold' = -9
    /\ fpc' = "while"
    /\ UNCHANGED <<num_booths, i, trial_results, median, simvars>>
    /\ FindFrame

\* lines 279-288
FindThresholdIterate ==
    /\ mode = "find_threshold" /\ fpc = "while" /\ ~all_voted
    /\ impatience_threshold' = impatience_threshold + 10
    /\ \E outcomes \in {simulate(precinct, stream[i + 1], num_booths,
                                  impatience_threshold + 10)} :
           /\ Assign(outcomes)
           /\ IF outcomes.pc = "done"
              THEN all_voted' = AllVoted(outcomes) /\ fpc' = "while"
              ELSE all_voted' = all_voted /\ fpc' = "failed"
    /\ UNCHANGED <<num_booths, i, trial_results, median>>
    /\ FindFrame

\* line 290 and the next turn of the for loop
FindThresholdRecord ==
    /\ mode = "find_threshold" /\ fpc = "while" /\ all_voted
    /\ trial_results' = Append(trial_results, impatience_threshold)
    /\ i' = i + 1
    /\ fpc' = "for"
    /\ UNCHANGED <<num_booths, impatience_threshold, all_voted, median, simvars>>
    /\ FindFrame

\* lines 292-296
FindThresholdMedian ==
    /\ mode = "find_threshold" /\ fpc = "for" /\ i >= num_trials
    /\ median' = median_of(trial_results)
    /\ fpc' = "done"
    /\ UNCHANGED <<num_booths, impatience_threshold, i, all_voted, trial_results, simvars>>
    /\ FindFrame

\* line 314
FindBoothsAssert ==
    /\ mode = "find_num_booths" /\ fpc = "assert"
    /\ IF num_trials > 0
       THEN fpc' = "for" /\ UNCHANGED simvars
       ELSE FindFails(AssertionError, "")
    /\ UNCHANGED <<num_booths, impatience_threshold, i, all_voted, trial_results, median>>
    /\ FindFrame

\* variant: the booth count starts at 1, so the first one tried is 2
FindBoothsTrial_from_one ==
    /\ mode = "find_num_booths" /\ fpc = "for" /\ i < num_trials
    /\ all_voted' = FALSE
    /\ num_booths' = 1
    /\ fpc' = "while"
    /\ UNCHANGED <<impatience_threshold, i, trial_results, median, simvars>>
    /\ FindFrame

\* lines 318-320
FindBoothsTrial ==
    /\ mode = "find_num_booths" /\ fpc = "for" /\ i < num_trials
    /\ all_voted' = FALSE
    /\ num_booths' = 0
    /\ fpc' = "while"
    /\ UNCHANGED <<impatience_threshold, i, trial_results, median, simvars>>
    /\ FindFrame

\* lines 321-330
FindBoothsIterate ==
    /\ mode = "find_num_booths" /\ fpc = "while" /\ ~all_voted
    /\ num_booths' = num_booths + 1
    /\ \E outcomes \in {simulate(precinct, stream[i + 1], num_booths + 1,
                                  impatience_threshold)} :
           /\ Assign(outcomes)
           /\ IF outcomes.pc = "done"
              THEN all_voted' = AllVoted(outcomes) /\ fpc' = "while"
              ELSE all_voted' = all_voted /\ fpc' = "failed"
    /\ UNCHANGED <<impatience_threshold, i, trial_results, median>>
    /\ FindFrame

\* line 332 and the next turn of the for loop
FindBoothsRecord ==
    /\ mode = "find_num_booths" /\ fpc = "while" /\ all_voted
    /\ trial_results' = Append(trial_results, num_booths)
    /\ i' = i + 1
    /\ fpc' = "for"
    /\ UNCHANGED <<num_booths, impatience_threshold, all_voted, median, simvars>>
    /\ FindFrame

\* lines 334-338
FindBoothsMedian ==
    /\ mode = "find_num_booths" /\ fpc = "for" /\ i >= num_trials
    /\ median' = median_of(trial_results)
    /\ fpc' = "done"
    /\ UNCHANGED <<num_booths, impatience_threshold, i, all_voted, trial_results, simvars>>
    /\ FindFrame

NextFind ==
    \/ FindThresholdAssert
    \/ FindThresholdTrial
    \/ FindThresholdIterate
    \/ FindThresholdRecord
    \/ FindThresholdMedian
    \/ FindBoothsAssert
    \/ FindBoothsTrial
    \/ FindBoothsIterate
    \/ FindBoothsRecord
    \/ FindBoothsMedian

SpecFind == InitFind /\ [][NextFind]_vars

\* the routines run sequentially to completion: a step that can be taken is taken
SpecFindFair == InitFind /\ [][NextFind]_vars /\ WF_vars(NextFind)

\* how voter j of the running call was handled, from what it found at line 222
Arrival(j) == voter_list[j].arrival_time

FoundFree(j) == observed[j].available

FoundStale(j) == ~observed[j].available /\ Arrival(j) > observed[j].min_dt

FoundBusy(j) == ~observed[j].available /\ Arrival(j) <= observed[j].min_dt

Voters == 1..Len(voter_list)

\* ------------------------------------------------------------- properties
\* C1: during a simulate run on a fresh pool with num_booths >= 1, after every
\* enter_booth, time_next_free and exit_booth call the booth queue holds at
\* most num_booths entries.
C1_Capacity == num_booths >= 1 => Len(q) <= num_booths

\* a voter who found two booths both occupied has replaced an occupant
C1_Witness ==
    /\ pc = "vote" /\ num_booths >= 2 /\ Len(q) = num_booths
    /\ ~FoundFree(k)

\* the same arrival sequence simulated again with other booths or threshold
Rerun(nb, thr) == simulate(precinct, stream[1], nb, thr)

\* C2 as stated: for a fixed arrival sequence and num_booths, a larger
\* impatience_threshold never yields fewer voters with has_voted.
C2_ThresholdMonotone ==
    Returned =>
        \A t2 \in ProfileThresholds :
            t2 > impatience_threshold =>
                \A r2 \in {Rerun(num_booths, t2)} :
                    r2.pc = "done" => VotedCount(r2) >= VotedCount(Cur)

\* C2 amended: if every voter votes under a threshold, then under every larger
\* threshold simulate returns and every voter votes.
C2_ConvergedStaysConverged ==
    (Returned /\ AllVoted(Cur)) =>
        \A t2 \in ProfileThresholds :
            t2 > impatience_threshold =>
                \A r2 \in {Rerun(num_booths, t2)} : r2.pc = "done" /\ AllVoted(r2)

\* every voter voted, one of them impatient after waiting as long as the
\* threshold allows, and a larger threshold exists
C2_Witness ==
    /\ Returned /\ AllVoted(Cur) /\ Len(voter_list) >= 3
    /\ \E t2 \in ProfileThresholds : t2 > impatience_threshold
    /\ \E j \in Voters :
        /\ voter_list[j].is_impatient /\ FoundBusy(j)

C4_DepartureConsistency ==
    Returned =>
        \A n \in 1..Len(confirmed_voter_list) :
            LET j == confirmed_voter_list[n]
            IN  has_voted[j] =>
                    /\ departure_time[j] = start_time[j] + voter_list[j].voting_duration
                    /\ start_time[j] >= Arrival(j)

\* one voter admitted by each of the three branches, the third after a wait
C4_Witness ==
    /\ Returned
    /\ \E a, b, c \in Voters :
        /\ has_voted[a] /\ FoundFree(a)
        /\ has_voted[b] /\ FoundStale(b)
        /\ has_voted[c] /\ FoundBusy(c) /\ start_time[c] > Arrival(c)

\* C5: a voter ends simulate unvoted exactly when, on arrival, no booth was
\* available, the arrival time was not after the lowest departure time in the
\* pool, the voter is impatient and the wait strictly exceeds the threshold.
C5_UnvotedIff ==
    Returned =>
        \A j \in Voters :
            (~has_voted[j]) <=>
                /\ ~observed[j].available
                /\ Arrival(j) <= observed[j].min_dt
                /\ voter_list[j].is_impatient
                /\ observed[j].min_dt - Arrival(j) > impatience_threshold

\* an impatient voter left, and another whose wait equalled the threshold voted
C5_Witness ==
    /\ Returned
    /\ \E a, b \in Voters :
        /\ ~has_voted[a]
        /\ has_voted[b] /\ voter_list[b].is_impatient /\ FoundBusy(b)
        /\ observed[b].min_dt - Arrival(b) = impatience_threshold

\* C6: the returned list holds every generated voter exactly once, in arrival
\* order, voted or not.
C6_Completeness ==
    Returned =>
        /\ Len(confirmed_voter_list) = Len(generate_voter_list(precinct, stream[1]))
        /\ confirmed_voter_list = [j \in Voters |-> j]
        /\ voter_list = generate_voter_list(precinct, stream[1])

C6_Witness ==
    /\ Returned /\ Len(voter_list) = 3
    /\ has_voted[1] /\ ~has_voted[2] /\ has_voted[3]

\* C7: 1 booth, voters at t=0 (duration 10) and t=5 (duration 4): with
\* threshold 100 simulate completes with both voted, the second starting at 10
\* and leaving at 14; with threshold 3 and voter 2 impatient it completes with
\* voter 2 unvoted.
C7_Scenario ==
    /\ num_booths = 1 /\ precinct.num_voters = 2
    /\ stream[1][1].gap = 0 /\ stream[1][1].voting_duration = 10
    /\ stream[1][2].gap = 5 /\ stream[1][2].voting_duration = 4

C7_ConcreteScenario ==
    (C7_Scenario /\ Finished(Cur)) =>
        /\ Returned
        /\ impatience_threshold = 100 =>
               /\ has_voted = <<TRUE, TRUE>>
               /\ start_time[2] = 10 /\ departure_time[2] = 14
        /\ (impatience_threshold = 3 /\ stream[1][2].is_impatient) =>
               ~has_voted[2]

\* C8: with non-negative arrival times, positive durations and num_booths >= 1
\* a simulate run reaches no assertion failure.
C8_NoAssertionFailure == num_booths >= 1 => err # AssertionError

\* C9: in the returned list start_time and departure_time are both unset or
\* both set, and has_voted holds exactly when they are set.
C9_SetTogether ==
    Returned =>
        \A n \in 1..Len(confirmed_voter_list) :
            LET j == confirmed_voter_list[n]
            IN  /\ (start_time[j] = None) <=> (departure_time[j] = None)
                /\ has_voted[j] <=> (start_time[j] # None /\ departure_time[j] # None)

C9_Witness ==
    /\ Returned
    /\ \E a, b \in Voters :
        /\ has_voted[a] /\ start_time[a] # None
        /\ ~has_voted[b] /\ start_time[b] = None

\* the outcome of simulate for trial j (seed + j - 1) all voted
Converges(j, nb, thr) ==
    \A r \in {simulate(precinct, stream[j], nb, thr)} :
        r.pc = "done" /\ AllVoted(r)

\* C10: each recorded value is the smallest of 1, 11, 21, ... (thresholds) or
\* of 1, 2, 3, ... (booth counts) for which that trial's simulate returns only
\* voters who voted, and neither loop exits while the latest outcome has an
\* unvoted voter.
C10_SmallestConverging ==
    /\ mode = "find_threshold" =>
        \A j \in 1..Len(trial_results) :
            LET t == trial_results[j]
            IN  /\ t >= 1 /\ t % 10 = 1
                /\ Converges(j, num_booths, t)
                /\ \A t2 \in 1..(t - 1) :
                       t2 % 10 = 1 => ~Converges(j, num_booths, t2)
    /\ mode = "find_num_booths" =>
        \A j \in 1..Len(trial_results) :
            LET b == trial_results[j]
            IN  /\ b >= 1
                /\ Converges(j, b, impatience_threshold)
                /\ \A b2 \in 1..(b - 1) : ~Converges(j, b2, impatience_threshold)
    /\ (mode \in {"find_threshold", "find_num_booths"} /\ fpc = "while" /\ all_voted)
           => (Returned /\ AllVoted(Cur))

\* a threshold search in which one trial needed three simulations and another two
C10_Witness ==
    /\ mode = "find_threshold" /\ fpc = "done"
    /\ \E j, n \in 1..Len(trial_results) :
           trial_results[j] = 21 /\ trial_results[n] = 11

FindEnded == fpc \in {"done", "failed"}

CountBelow(sq, x) == Cardinality({n \in 1..Len(sq) : sq[n] < x})

CountAtMost(sq, x) == Cardinality({n \in 1..Len(sq) : sq[n] <= x})

\* C12: for num_trials = n > 0 both routines return the element at index
\* n // 2 of the ascending-sorted per-trial values (the upper of the two middle
\* elements when n is even), never an average; for num_trials <= 0 both fail
\* with an assertion before any trial.
C12_MedianIndex ==
    /\ (mode \in {"find_threshold", "find_num_booths"} /\ fpc = "done") =>
        /\ num_trials > 0 /\ Len(trial_results) = num_trials
        /\ \E n \in 1..num_trials : median = trial_results[n]
        /\ CountBelow(trial_results, median) <= num_trials \div 2
        /\ CountAtMost(trial_results, median) >= (num_trials \div 2) + 1
    /\ (mode \in {"find_threshold", "find_num_booths"} /\ num_trials <= 0) =>
        /\ fpc \in {"assert", "failed"}
        /\ fpc = "failed" => err = AssertionError
        /\ trial_results = << >> /\ median = None /\ pc = "generate"

\* two trials whose values differ, recorded in descending order: the larger
\* one is returned
C12_Witness ==
    /\ fpc = "done" /\ num_trials = 2
    /\ trial_results[1] > trial_results[2]
    /\ median = trial_results[1]

\* C13: enter_booth on a pool that already holds num_booths voters, and
\* time_next_free or exit_booth on an empty pool, fail with an assertion and
\* leave the pool as it was; simulate with num_booths = 0 and a non-empty
\* arrival sequence fails on the first voter in time_next_free, with no voter
\* recorded as unvoted.
C13_AssertionsKeepPool ==
    /\ Len(q) >= num_booths =>
        \A j \in Voters :
            \A e \in {enter_booth(q, num_booths, j, Arrival(j) + 1,
                                  voter_list[j].voting_duration)} :
                e.err = AssertionError /\ e.msg = "All booths in use" /\ e.q = q
    /\ q = << >> =>
        /\ \A t \in {time_next_free(q)} : t.err = AssertionError /\ t.q = q
        /\ \A x \in {exit_booth(q)} : x.err = AssertionError /\ x.q = q
    /\ (num_booths = 0 /\ pc # "generate" /\ voter_list # << >>) =>
        /\ pc \in {"for", "peek", "failed"}
        /\ k = 1 /\ q = << >> /\ confirmed_voter_list = << >>
        /\ pc = "failed" =>
               err = AssertionError /\ msg = "No booths in use" /\ ~observed[1].available

\* a run without booths that failed on the first of several voters
C13_Witness ==
    /\ num_booths = 0 /\ pc = "failed" /\ msg = "No booths in use"
    /\ Len(voter_list) >= 2 /\ k = 1

\* cumulative time of candidate j: the sum of the first j drawn gaps
RECURSIVE GapSum(_, _)
GapSum(draws, j) == IF j = 0 THEN 0 ELSE GapSum(draws, j - 1) + draws[j].gap

Entries(qq) == {qq[n] : n \in 1..Len(qq)}

Count(qq, e) == Cardinality({n \in 1..Len(qq) : qq[n] = e})

SameEntries(qa, qb) ==
    \A e \in Entries(qa) \cup Entries(qb) : Count(qa, e) = Count(qb, e)

\* qb is qa without one copy of e
RemovedOne(qa, qb, e) ==
    /\ Count(qb, e) = Count(qa, e) - 1
    /\ \A x \in (Entries(qa) \cup Entries(qb)) \ {e} : Count(qa, x) = Count(qb, x)

C16_LeaveKeepsPool ==
    [][/\ (mode = "simulate" /\ pc = "for" /\ pc' = "peek") => q' = q
       /\ (mode = "simulate" /\ pc = "peek" /\ pc' = "decide") =>
           /\ SameEntries(q, q') /\ Len(q') = Len(q)
           /\ next_avail' = MinDt(q)
       /\ (mode = "simulate" /\ pc = "decide" /\ Arrival(k) <= MinDt(q)
             /\ voter_list[k].is_impatient
             /\ MinDt(q) - Arrival(k) > impatience_threshold) =>
           /\ pc' = "for" /\ k' = k + 1
           /\ q' = q /\ Len(q') = num_booths /\ MinDt(q') = observed[k].min_dt
           /\ start_time[k] = None /\ departure_time[k] = None /\ ~has_voted[k]
           /\ start_time'[k] = None /\ departure_time'[k] = None /\ ~has_voted'[k]
           /\ confirmed_voter_list' = Append(confirmed_voter_list, k)
      ]_vars

\* an impatient voter has just left two occupied booths without voting
C16_Witness ==
    /\ pc = "for" /\ k > 1 /\ num_booths = 2 /\ Len(q) = 2
    /\ ~has_voted[k - 1] /\ start_time[k - 1] = None
    /\ confirmed_voter_list[Len(confirmed_voter_list)] = k - 1

InSession(t) ==
    {j \in Voters : has_voted[j] /\ start_time[j] <= t /\ t < departure_time[j]}

\* C18: at every time at most num_booths voting sessions overlap.  The number
\* of sessions covering t changes only where a session starts, so it is
\* enough to count at every start_time; and the occupant a voter replaced
\* (the one with the lowest departure time when the voter arrived) had a
\* departure time no later than the voter's start_time.
C18_NoOverbooking ==
    \A j \in Voters :
        has_voted[j] =>
            /\ Cardinality(InSession(start_time[j])) <= num_booths
            /\ ~FoundFree(j) => observed[j].min_dt <= start_time[j]

\* two booths, both with a session in progress when a voter who had to wait starts
C18_Witness ==
    /\ Returned /\ num_booths = 2
    /\ \E j \in Voters :
           /\ has_voted[j] /\ FoundBusy(j) /\ start_time[j] > Arrival(j)
           /\ Cardinality(InSession(start_time[j])) = 2

\* voters admitted to a booth so far
Admitted == {j \in Voters : has_voted[j]}

\* C19: after each voter is fully processed the pool holds
\* min(num_booths, number of voters admitted so far) pairs, a number that
\* never decreases as voters are admitted, and no processed voter found a
\* free booth after an earlier one had found the pool full.
C19_PoolNeverShrinks ==
    (mode = "simulate" /\ pc \in {"for", "done"}) =>
        /\ Len(q) = (IF Cardinality(Admitted) <= num_booths
                     THEN Cardinality(Admitted) ELSE num_booths)
        /\ \A a, b \in 1..(k - 1) :
               (a < b /\ ~FoundFree(a)) => ~FoundFree(b)

\* three voters admitted to two booths, the third by replacing an occupant
C19_Witness ==
    /\ Returned /\ num_booths = 2 /\ Len(q) = 2
    /\ Cardinality(Admitted) = 3 /\ ~FoundFree(3)

\* C20: service is first-come-first-served: among the voters who voted,
\* start_time is non-decreasing in arrival (list) order, whatever num_booths
\* is and however many impatient voters were rejected in between.
C20_FirstComeFirstServed ==
    \A a, b \in Voters :
        (a < b /\ has_voted[a] /\ has_voted[b]) => start_time[a] <= start_time[b]

\* a voter who waited, after an impatient voter between two voters who voted
\* had left
C20_Witness ==
    /\ Returned /\ Len(voter_list) = 3
    /\ has_voted[1] /\ ~has_voted[2] /\ has_voted[3]
    /\ start_time[3] > Arrival(3) /\ start_time[1] < start_time[3]

====
